---- MODULE Spec2Model ----
(***************************************************************************)
(* A model of lunemec/1brc (main.go): the chunker, the fixed-point parser, *)
(* the array-backed table simpleMap, the worker pool, the merger and the   *)
(* formatter's name listing.                                               *)
(*                                                                         *)
(* Bytes are numbers 0..255, byte slices are sequences of bytes. Go's      *)
(* slices are indexed from 0 and TLA+ sequences from 1: At(s, i) is s[i].  *)
(* A run-time panic (index out of range) is a result of its own, never an  *)
(* arbitrary value.                                                        *)
(***************************************************************************)
EXTENDS Integers, Sequences, FiniteSets, TLC

\* ------------------------------------------------------------- bytes ----

NL == 10
SEMI == 59
MINUS == 45
DOT == 46
ASCII0 == 48

\* data[i] of a Go slice (0-based).
At(s, i) == s[i + 1]

\* data[lo:hi] of a Go slice.
Slice(s, lo, hi) == SubSeq(s, lo + 1, hi)

\* bytes.IndexByte(data, c): the first index of c, or -1.
IndexByte(data, c) ==
    IF \E i \in 1..Len(data) : data[i] = c
    THEN (CHOOSE i \in 1..Len(data) :
              data[i] = c /\ \A j \in 1..(i - 1) : data[j] # c) - 1
    ELSE -1

\* bytes.LastIndexByte(data, c): the last index of c, or -1.
LastIndexByte(data, c) ==
    IF \E i \in 1..Len(data) : data[i] = c
    THEN (CHOOSE i \in 1..Len(data) :
              data[i] = c /\ \A j \in (i + 1)..Len(data) : data[j] # c) - 1
    ELSE -1

\* Go's string comparison a < b: byte-wise lexicographic.
StrLess(a, b) ==
    \E k \in 1..(Len(b)) :
        /\ \A j \in 1..(k - 1) : j <= Len(a) /\ a[j] = b[j]
        /\ k - 1 <= Len(a)
        /\ (k > Len(a) \/ a[k] < b[k])

\* ------------------------------------------------------------ parser ----

\* Conversion to int16 (the types measurement, minT, maxT).
Int16(x) == ((x + 32768) % 65536) - 32768

\* measurement(b - 48) for a byte b: the subtraction is on uint8 and wraps.
DigitOf(b) == (b - ASCII0) % 256

NumPanic == [panic |-> TRUE, val |-> 0]
NumVal(v) == [panic |-> FALSE, val |-> Int16(v)]

\* A faulty variant of parseNumber: the five-byte layout read with the
\* digit offsets of the four-byte one.
parseNumberShifted(line) ==
    IF Len(line) = 0 THEN NumPanic
    ELSE IF At(line, 0) = MINUS
    THEN IF Len(line) < 4 THEN NumPanic
         ELSE NumVal(-(10 * DigitOf(At(line, 1)) + DigitOf(At(line, 3))))
    ELSE IF Len(line) = 3
         THEN NumVal(10 * DigitOf(At(line, 0)) + DigitOf(At(line, 2)))
         ELSE IF Len(line) < 4 THEN NumPanic
         ELSE NumVal(100 * DigitOf(At(line, 0)) + 10 * DigitOf(At(line, 1))
                     + DigitOf(At(line, 3)))

parseNumber(line) ==
    IF Len(line) = 0 THEN NumPanic
    ELSE IF At(line, 0) = MINUS
    THEN IF Len(line) = 4
         THEN NumVal(-(10 * DigitOf(At(line, 1)) + DigitOf(At(line, 3))))
         ELSE IF Len(line) < 5 THEN NumPanic
         ELSE NumVal(-(100 * DigitOf(At(line, 1)) + 10 * DigitOf(At(line, 2))
                       + DigitOf(At(line, 4))))
    ELSE IF Len(line) = 3
         THEN NumVal(10 * DigitOf(At(line, 0)) + DigitOf(At(line, 2)))
         ELSE IF Len(line) < 4 THEN NumPanic
         ELSE NumVal(100 * DigitOf(At(line, 0)) + 10 * DigitOf(At(line, 1))
                     + DigitOf(At(line, 3)))

LinePanic == [panic |-> TRUE, newlineIdx |-> 0, name |-> <<>>, measurement |-> 0]

\* The separator index parseLine picks, given the terminator's index.
separatorIdxOf(data, newlineIdx) ==
    IF At(data, newlineIdx - 4) = SEMI THEN newlineIdx - 4
    ELSE IF At(data, newlineIdx - 6) = SEMI THEN newlineIdx - 6
    ELSE newlineIdx - 5

\* parseLine reads data[newlineIdx-4] and data[newlineIdx-6] before it tests
\* either, so a terminator at an index below 6 is an index out of range.
parseLine(data) ==
    LET newlineIdx == IndexByte(data, NL) IN
    IF newlineIdx = -1
    THEN [panic |-> FALSE, newlineIdx |-> -1, name |-> <<>>, measurement |-> 0]
    ELSE IF newlineIdx - 6 < 0 THEN LinePanic
    ELSE LET separatorIdx == separatorIdxOf(data, newlineIdx)
             num == parseNumber(Slice(data, separatorIdx + 1, newlineIdx))
         IN IF num.panic THEN LinePanic
            ELSE [panic |-> FALSE, newlineIdx |-> newlineIdx,
                  name |-> Slice(data, 0, separatorIdx),
                  measurement |-> num.val]

\* ------------------------------------------------------------- stats ----

ZeroStats == [sum |-> 0, min |-> 0, max |-> 0, count |-> 0]

\* The nil *stats.
NilStats == [nil |-> TRUE]

Min2(a, b) == IF a < b THEN a ELSE b
Max2(a, b) == IF a > b THEN a ELSE b

\* A faulty variant of updateStats: no first-observation case, so min and max
\* start from the zero value of a new stats.
updateStatsFromZero(stats, measurement) ==
    [sum |-> stats.sum + measurement,
     min |-> Min2(stats.min, measurement),
     max |-> Max2(stats.max, measurement),
     count |-> stats.count + 1]

\* The value *stats holds after updateStats(stats, measurement).
updateStats(stats, measurement) ==
    IF stats.count = 0
    THEN [sum |-> measurement, min |-> measurement, max |-> measurement,
          count |-> 1]
    ELSE [sum |-> stats.sum + measurement,
          min |-> Min2(stats.min, measurement),
          max |-> Max2(stats.max, measurement),
          count |-> stats.count + 1]

\* --------------------------------------------------------- simpleMap ----
\* A table is [capacity, length, data]. data is the slice of buckets, kept
\* sparse: its domain holds the slots whose bucket has items, and every slot
\* outside it is an empty bucket. An item is [name, stats]; the *stats an
\* item points to is owned by that table alone (chunkReader and sumChunk
\* allocate it right before set), so the pointee is kept in the item.

maxStations == 16384

newSimpleMap(capacity) == [capacity |-> capacity, length |-> 0, data |-> <<>>]

\* m.data[pos].items
bucketItems(m, pos) == IF pos \in DOMAIN m.data THEN m.data[pos] ELSE <<>>

\* The hash is a uint32, kept as its two 16-bit halves [hi, lo] so that the
\* arithmetic modulo 2^32 stays within the integers of the model checker.
HashSeedHi == 33052
HashSeedLo == 40389
PrimeHi == 256
PrimeLo == 403
Two16 == 65536

\* hash = hash*prime32b + block (mod 2^32)
hashStep(hash, block) ==
    LET low == hash.lo * PrimeLo + block
        mid == hash.hi * PrimeLo + hash.lo * PrimeHi + (low \div Two16)
    IN [hi |-> mid % Two16, lo |-> low % Two16]

\* A faulty variant of the loop: the odd trailing byte is folded as a block
\* of its own.
RECURSIVE hashLoopAllBytes(_, _, _)
hashLoopAllBytes(station, i, hash) ==
    IF i + 2 <= Len(station)
    THEN hashLoopAllBytes(station, i + 2,
                          hashStep(hash, At(station, i) + At(station, i + 1) * 256))
    ELSE IF i + 1 <= Len(station)
         THEN hashStep(hash, At(station, i))
         ELSE hash

RECURSIVE hashLoop(_, _, _)
hashLoop(station, i, hash) ==
    IF i + 2 <= Len(station)
    THEN hashLoop(station, i + 2,
                  hashStep(hash, At(station, i) + At(station, i + 1) * 256))
    ELSE hash

stationPos(station, capacity) ==
    LET hash == hashLoop(station, 0, [hi |-> HashSeedHi, lo |-> HashSeedLo])
    IN ((hash.hi % capacity) * (Two16 % capacity) + hash.lo) % capacity

mapPos(m, name) == stationPos(name, m.capacity)

\* The index (from 1) of the first item of the bucket with this name, or 0.
itemIndexOf(items, name) ==
    IF \E i \in 1..Len(items) : items[i].name = name
    THEN CHOOSE i \in 1..Len(items) :
             items[i].name = name /\ \A j \in 1..(i - 1) : items[j].name # name
    ELSE 0

\* A faulty variant of get: the fast path for a bucket of one item taken for
\* every bucket, so only the first item is looked at.
mapGetFirst(m, pos, name) ==
    LET items == bucketItems(m, pos)
    IN IF Len(items) = 0 \/ items[1].name # name
       THEN [ok |-> FALSE, stats |-> NilStats]
       ELSE [ok |-> TRUE, stats |-> items[1].stats]

mapGet(m, pos, name) ==
    LET items == bucketItems(m, pos)
        i == itemIndexOf(items, name)
    IN IF i = 0 THEN [ok |-> FALSE, stats |-> NilStats]
       ELSE [ok |-> TRUE, stats |-> items[i].stats]

\* m.data with the bucket at pos replaced.
withBucket(m, pos, items) ==
    [s \in (DOMAIN m.data) \cup {pos} |-> IF s = pos THEN items ELSE m.data[s]]

\* A faulty variant of set: no search of the bucket, the item is appended
\* whether or not the name is there.
mapSetAppend(m, pos, name, st) ==
    [m EXCEPT !.length = @ + 1,
              !.data = withBucket(m, pos,
                           Append(bucketItems(m, pos),
                                  [name |-> name, stats |-> st]))]

mapSet(m, pos, name, st) ==
    LET items == bucketItems(m, pos)
        i == itemIndexOf(items, name)
        item == [name |-> name, stats |-> st]
    IN IF Len(items) = 0
       THEN [m EXCEPT !.length = @ + 1, !.data = withBucket(m, pos, <<item>>)]
       ELSE IF i # 0
       THEN [m EXCEPT !.data = withBucket(m, pos, [items EXCEPT ![i] = item])]
       ELSE [m EXCEPT !.length = @ + 1,
                      !.data = withBucket(m, pos, Append(items, item))]

\* A write through the *stats that get(pos, name) returned: the item keeps
\* its place and now points to the new value.
storeStats(m, pos, name, st) ==
    LET items == bucketItems(m, pos)
        i == itemIndexOf(items, name)
    IN [m EXCEPT !.data = withBucket(m, pos, [items EXCEPT ![i].stats = st])]

\* A faulty variant of the closure of iter(): it yields the entries but reports
\* slot 0 for each of them.
iterNextNoSlot(m, bucketIndex, itemIndex) ==
    LET later == {s \in DOMAIN m.data : s > bucketIndex}
        moved == itemIndex >= Len(bucketItems(m, bucketIndex))
        bi == IF ~moved THEN bucketIndex
              ELSE IF later # {}
                   THEN CHOOSE s \in later : \A t \in later : s <= t
                   ELSE IF bucketIndex + 1 <= m.capacity - 1
                        THEN m.capacity - 1 ELSE bucketIndex
        ii == IF moved /\ later # {} THEN 0 ELSE itemIndex
    IN IF bi >= m.capacity - 1
       THEN [ok |-> FALSE, pos |-> 0, name |-> <<>>, stats |-> NilStats,
             bucketIndex |-> bi, itemIndex |-> ii]
       ELSE [ok |-> TRUE, pos |-> 0,
             name |-> bucketItems(m, bi)[ii + 1].name,
             stats |-> bucketItems(m, bi)[ii + 1].stats,
             bucketIndex |-> bi, itemIndex |-> ii + 1]

\* One call of the closure iter() returns, from its captured bucketIndex and
\* itemIndex. The for loop that looks for the next non-empty bucket stops at
\* the first one, or leaves bucketIndex at len(m.data)-1.
iterNext(m, bucketIndex, itemIndex) ==
    LET later == {s \in DOMAIN m.data : s > bucketIndex}
        moved == itemIndex >= Len(bucketItems(m, bucketIndex))
        bi == IF ~moved THEN bucketIndex
              ELSE IF later # {}
                   THEN CHOOSE s \in later : \A t \in later : s <= t
                   ELSE IF bucketIndex + 1 <= m.capacity - 1
                        THEN m.capacity - 1 ELSE bucketIndex
        ii == IF moved /\ later # {} THEN 0 ELSE itemIndex
    IN IF bi >= m.capacity - 1
       THEN [ok |-> FALSE, pos |-> 0, name |-> <<>>, stats |-> NilStats,
             bucketIndex |-> bi, itemIndex |-> ii]
       ELSE [ok |-> TRUE, pos |-> bi,
             name |-> bucketItems(m, bi)[ii + 1].name,
             stats |-> bucketItems(m, bi)[ii + 1].stats,
             bucketIndex |-> bi, itemIndex |-> ii + 1]

\* The entries a caller gets by calling next() until it reports ok = false.
RECURSIVE iterFrom(_, _, _)
iterFrom(m, bucketIndex, itemIndex) ==
    LET r == iterNext(m, bucketIndex, itemIndex) IN
    IF ~r.ok THEN <<>>
    ELSE <<[pos |-> r.pos, name |-> r.name, stats |-> r.stats]>>
         \o iterFrom(m, r.bucketIndex, r.itemIndex)

mapIter(m) == iterFrom(m, 0, 0)

\* ------------------------------------------------------- chunkReader ----

\* The body of chunkReader's inner loop for one parsed record.
readRecord(out, name, measurement) ==
    LET pos == mapPos(out, name)
        got == mapGet(out, pos, name)
        held == IF got.ok THEN out ELSE mapSet(out, pos, name, ZeroStats)
        stationStats == IF got.ok THEN got.stats ELSE ZeroStats
    IN storeStats(held, pos, name, updateStats(stationStats, measurement))

\* chunkReader's inner loop over one chunk: parseLine until it returns -1.
RECURSIVE readChunk(_, _)
readChunk(out, chunkView) ==
    LET r == parseLine(chunkView) IN
    IF r.panic THEN [panic |-> TRUE, out |-> out]
    ELSE IF r.newlineIdx = -1 THEN [panic |-> FALSE, out |-> out]
    ELSE readChunk(readRecord(out, r.name, r.measurement),
                   Slice(chunkView, r.newlineIdx + 1, Len(chunkView)))

\* ------------------------------------------------------------ merger ----

\* A faulty variant of sumStats: the counts are not added, the accumulator's
\* count stays as it was.
sumStatsKeepCount(a, b) ==
    [sum |-> a.sum + b.sum, min |-> Min2(a.min, b.min),
     max |-> Max2(a.max, b.max), count |-> a.count]

\* The four additions and comparisons at the end of sumChunk's loop body.
sumStats(a, b) ==
    [sum |-> a.sum + b.sum, min |-> Min2(a.min, b.min),
     max |-> Max2(a.max, b.max), count |-> a.count + b.count]

\* The body of sumChunk's loop for one entry of the source table.
sumEntry(sumStationData, e) ==
    LET got == mapGet(sumStationData, e.pos, e.name)
        held == IF got.ok THEN sumStationData
                ELSE mapSet(sumStationData, e.pos, e.name, ZeroStats)
        sumStationStats == IF got.ok THEN got.stats ELSE ZeroStats
    IN storeStats(held, e.pos, e.name, sumStats(sumStationStats, e.stats))

RECURSIVE sumEntries(_, _)
sumEntries(sumStationData, entries) ==
    IF entries = <<>> THEN sumStationData
    ELSE sumEntries(sumEntry(sumStationData, Head(entries)), Tail(entries))

sumChunk(sumStationData, stationDataChunk) ==
    sumEntries(sumStationData, mapIter(stationDataChunk))

\* --------------------------------------------------------- formatter ----

\* sort.Slice by name: the entries in ascending byte order of their names
\* (insertion into a sorted sequence, after every entry that is not greater).
RECURSIVE insertSorted(_, _)
insertSorted(sorted, e) ==
    IF sorted = <<>> THEN <<e>>
    ELSE IF StrLess(e.name, Head(sorted).name) THEN <<e>> \o sorted
    ELSE <<Head(sorted)>> \o insertSorted(Tail(sorted), e)

RECURSIVE sortByName(_)
sortByName(names) ==
    IF names = <<>> THEN <<>>
    ELSE insertSorted(sortByName(Tail(names)), Head(names))

\* What printOutput renders, before the numbers are formatted: for each name
\* in sorted order, the name and the Stats get(pos, name) returns for it.
printOutput(sumStationData) ==
    LET names == sortByName(mapIter(sumStationData))
    IN [i \in 1..Len(names) |->
           [name |-> names[i].name,
            stats |-> mapGet(sumStationData, names[i].pos, names[i].name).stats]]

\* ------------------------------------------------------------- input ----
\* The input file: records <name>;<value>\n, the value with one fractional
\* digit, written here as the integer value*10.

MaxRecords == 3
MaxChunkSize == 15
MaxRunRecords == 2
RunChunkSpan == 0
MaxReaders == 2

\* The text of a value in tenths: -?D?D.D
valueText(v) ==
    LET a == IF v < 0 THEN -v ELSE v IN
    (IF v < 0 THEN <<MINUS>> ELSE <<>>)
    \o (IF a >= 100 THEN <<ASCII0 + (a \div 100)>> ELSE <<>>)
    \o <<ASCII0 + ((a \div 10) % 10), DOT, ASCII0 + (a % 10)>>

recordText(r) == r.name \o <<SEMI>> \o valueText(r.value) \o <<NL>>

RECURSIVE fileOf(_)
fileOf(records) ==
    IF records = <<>> THEN <<>>
    ELSE recordText(Head(records)) \o fileOf(Tail(records))

\* Station names: "ab", "x", "y" and the three-byte UTF-8 character U+08A0,
\* which stationPos puts in the last slot of a table of maxStations slots.
NameAb == <<97, 98>>
NameX == <<120>>
NameY == <<121>>
NameU == <<224, 162, 160>>

RecordPool ==
    { [name |-> NameAb, value |-> 15],
      [name |-> NameAb, value |-> -20],
      [name |-> NameX, value |-> 7],
      [name |-> NameY, value |-> -105],
      [name |-> NameU, value |-> 123] }

\* The length of the longest record, terminator included.
LongestRecord ==
    CHOOSE n \in 1..110 :
        /\ \E r \in RecordPool : Len(recordText(r)) = n
        /\ \A r \in RecordPool : Len(recordText(r)) <= n

RECURSIVE SeqsUpTo(_, _)
SeqsUpTo(S, n) ==
    IF n = 0 THEN {<<>>}
    ELSE LET shorter == SeqsUpTo(S, n - 1)
         IN shorter \cup {Append(q, x) : q \in {t \in shorter : Len(t) = n - 1}, x \in S}

Inputs == SeqsUpTo(RecordPool, MaxRecords)

\* The files run() is given: over three of the stations, one of them with two
\* values of opposite sign and one of them in the last slot of the table.
RunPool == { r \in RecordPool : r.name # NameY }
RunInputs == SeqsUpTo(RunPool, MaxRunRecords)

\* --------------------------------------------------------------- run ----

VARIABLES
    input,        \* the records of the input file
    chunkSize,    \* the chunk size handed to chunkByBytes
    chunkReaders, \* the number of worker goroutines
    prevEnd,      \* chunkByBytes: the offset the next read starts at
    ppc,          \* chunkByBytes' goroutine: read, send, sendLast, close, closed
    pchunk,       \* the chunk the producer is sending
    emitted,      \* the chunks sent on the chunk channel so far, in order
    wpc,          \* each worker: recv, parse, send, done, exit
    wchunk,       \* the chunk each worker is parsing
    wmap,         \* each worker's table (chunkReader's out)
    wg,           \* the WaitGroup's counter
    cpc,          \* the closer goroutine: wait, closed (dataChunkChan closed)
    mpc,          \* run's own goroutine: first, range, sum, done
    stationData,  \* the accumulator of the merge
    dataChunk,    \* the table the merger received last
    arrived,      \* the tables as they reached the merger, in order
    arrivedFrom,  \* the worker each of these tables came from
    taken,        \* for each chunk sent, the worker that received it
    handled,      \* for each worker, the chunks it has parsed, in order
    output,       \* what printOutput rendered
    panicked      \* a goroutine panicked: the process is gone

runVars == <<input, chunkSize, chunkReaders, prevEnd, ppc, pchunk, emitted, wpc,
             wchunk, wmap, wg, cpc, mpc, stationData, dataChunk, arrived,
             arrivedFrom, taken, handled, output, panicked>>

\* State of the calls of the pure parts (parser, stats, table), used by the
\* specifications that call them on their own.
VARIABLES
    pin,    \* parseLine's argument: [name, text, value, tail, terminated]
    pret,   \* what parseLine(data) returned, once called
    nret,   \* what parseNumber returned for the value text, once called
    st,     \* a stats record that updateStats is called on
    seen,   \* the measurements folded into st so far
    tacc,   \* sumChunk's first argument (the accumulator)
    tsrc,   \* sumChunk's second argument
    tbefore,\* the accumulator before the last sumChunk
    tphase, \* fill: the tables are being built; merged: sumChunk has returned
    rret,   \* what chunkReader's loop did with parseLine's argument, once run
    tbl,    \* a table that set, get and iter are called on
    tset,   \* for each name set on tbl, the *stats of its last set
    tcall,  \* the last call on tbl, with what it returned
    hin,    \* stationPos' arguments: [station, capacity]
    hret    \* what stationPos returned, once called

parseVars == <<pin, pret, nret, rret>>
statsVars == <<st, seen>>
mapVars == <<tacc, tsrc, tbefore, tphase>>
tableVars == <<tbl, tset, tcall>>
hashVars == <<hin, hret>>
pureVars == <<parseVars, statsVars, mapVars, tableVars, hashVars>>


file == fileOf(input)

Readers == 1..chunkReaders

\* The nil *simpleMap.
NilMap == newSimpleMap(0)

\* The producer spins on empty chunks when a full read of one byte holds no
\* terminator; the history is kept to this many chunks.
MaxEmitted == Len(file) + 2

\* What every run starts from, whatever its input and sizes.
InitState ==
    /\ prevEnd = 0
    /\ ppc = "read"
    /\ pchunk = <<>>
    /\ emitted = <<>>
    /\ wpc = [w \in Readers |-> "recv"]
    /\ wchunk = [w \in Readers |-> <<>>]
    /\ wmap = [w \in Readers |-> newSimpleMap(maxStations)]
    /\ wg = chunkReaders
    /\ cpc = "wait"
    /\ mpc = "first"
    /\ stationData = NilMap
    /\ dataChunk = NilMap
    /\ arrived = <<>>
    /\ arrivedFrom = <<>>
    /\ taken = <<>>
    /\ handled = [w \in Readers |-> <<>>]
    /\ output = <<>>
    /\ panicked = FALSE

findEndIdx(data, idx) ==
    LET chunkEnd == LastIndexByte(Slice(data, 0, idx + 1), NL) IN
    IF chunkEnd = -1 THEN idx ELSE chunkEnd + 1

\* f.ReadAt(data, start) with len(data) = chunkSize: the bytes read.
readAt(start) ==
    Slice(file, start, Min2(start + chunkSize, Len(file)))

\* A faulty variant of nextStart: the offset within the read taken for the
\* offset within the file (prevEnd = chunkEnd).
nextStartAssigned(start, chunkEnd) == chunkEnd

\* prevEnd += chunkEnd
nextStart(start, chunkEnd) == start + chunkEnd

\* One iteration of chunkByBytes' loop up to its send: a short read is the
\* final chunk, a full read is cut after its last terminator.
ProducerRead ==
    /\ ~panicked
    /\ ppc = "read"
    /\ Len(emitted) < MaxEmitted
    /\ LET data == readAt(prevEnd)
           chunkEnd == findEndIdx(data, chunkSize - 1)
       IN IF Len(data) < chunkSize
          THEN /\ pchunk' = data
               /\ ppc' = "sendLast"
               /\ UNCHANGED prevEnd
          ELSE /\ pchunk' = Slice(data, 0, chunkEnd)
               /\ prevEnd' = nextStart(prevEnd, chunkEnd)
               /\ ppc' = "send"
    /\ UNCHANGED <<input, chunkSize, chunkReaders, emitted, wpc, wchunk, wmap, wg,
                   cpc, mpc, stationData, dataChunk, arrived, output, panicked>>
    /\ UNCHANGED <<arrivedFrom, taken, handled>>
    /\ UNCHANGED pureVars

\* A faulty variant of Handoff: the chunk sent reaches every worker that is
\* waiting to receive, not one of them.
HandoffToAll(w) ==
    /\ ~panicked
    /\ ppc \in {"send", "sendLast"}
    /\ wpc[w] = "recv"
    /\ wchunk' = [v \in Readers |-> IF wpc[v] = "recv" THEN pchunk ELSE wchunk[v]]
    /\ wpc' = [v \in Readers |-> IF wpc[v] = "recv" THEN "parse" ELSE wpc[v]]
    /\ emitted' = Append(emitted, pchunk)
    /\ ppc' = IF ppc = "send" THEN "read" ELSE "close"
    /\ taken' = Append(taken, w)
    /\ UNCHANGED <<input, chunkSize, chunkReaders, prevEnd, pchunk, wmap, wg, cpc,
                   mpc, stationData, dataChunk, arrived, output, panicked>>
    /\ UNCHANGED <<arrivedFrom, handled>>
    /\ UNCHANGED pureVars

\* out <- c meets a worker's receive (the channel has no buffer).
Handoff(w) ==
    /\ ~panicked
    /\ ppc \in {"send", "sendLast"}
    /\ wpc[w] = "recv"
    /\ wchunk' = [wchunk EXCEPT ![w] = pchunk]
    /\ wpc' = [wpc EXCEPT ![w] = "parse"]
    /\ emitted' = Append(emitted, pchunk)
    /\ ppc' = IF ppc = "send" THEN "read" ELSE "close"
    /\ UNCHANGED <<input, chunkSize, chunkReaders, prevEnd, pchunk, wmap, wg, cpc,
                   mpc, stationData, dataChunk, arrived, output, panicked>>
    /\ taken' = Append(taken, w)
    /\ UNCHANGED <<arrivedFrom, handled>>
    /\ UNCHANGED pureVars

\* The deferred close(out) after the final chunk.
ProducerClose ==
    /\ ~panicked
    /\ ppc = "close"
    /\ ppc' = "closed"
    /\ UNCHANGED <<input, chunkSize, chunkReaders, prevEnd, pchunk, emitted, wpc,
                   wchunk, wmap, wg, cpc, mpc, stationData, dataChunk, arrived,
                   output, panicked>>
    /\ UNCHANGED <<arrivedFrom, taken, handled>>
    /\ UNCHANGED pureVars

\* chunkReader folds every record of the chunk it holds into its table.
WorkerParse(w) ==
    /\ ~panicked
    /\ wpc[w] = "parse"
    /\ LET r == readChunk(wmap[w], wchunk[w]) IN
       /\ ~r.panic
       /\ wmap' = [wmap EXCEPT ![w] = r.out]
    /\ wpc' = [wpc EXCEPT ![w] = "recv"]
    /\ UNCHANGED <<input, chunkSize, chunkReaders, prevEnd, ppc, pchunk, emitted,
                   wchunk, wg, cpc, mpc, stationData, dataChunk, arrived, output,
                   panicked>>
    /\ handled' = [handled EXCEPT ![w] = Append(@, wchunk[w])]
    /\ UNCHANGED <<arrivedFrom, taken>>
    /\ UNCHANGED pureVars

\* parseLine or parseNumber indexes out of range: the process dies.
WorkerPanic(w) ==
    /\ ~panicked
    /\ wpc[w] = "parse"
    /\ LET r == readChunk(wmap[w], wchunk[w]) IN
       /\ r.panic
       /\ wmap' = [wmap EXCEPT ![w] = r.out]
    /\ panicked' = TRUE
    /\ UNCHANGED <<input, chunkSize, chunkReaders, prevEnd, ppc, pchunk, emitted,
                   wpc, wchunk, wg, cpc, mpc, stationData, dataChunk, arrived,
                   output>>
    /\ UNCHANGED <<arrivedFrom, taken, handled>>
    /\ UNCHANGED pureVars

\* The chunk channel is closed and drained: the range loop ends and the worker
\* goes on to send its table.
WorkerEnd(w) ==
    /\ ~panicked
    /\ wpc[w] = "recv"
    /\ ppc = "closed"
    /\ wpc' = [wpc EXCEPT ![w] = "send"]
    /\ UNCHANGED <<input, chunkSize, chunkReaders, prevEnd, ppc, pchunk, emitted,
                   wchunk, wmap, wg, cpc, mpc, stationData, dataChunk, arrived,
                   output, panicked>>
    /\ UNCHANGED <<arrivedFrom, taken, handled>>
    /\ UNCHANGED pureVars

\* stationData := <-dataChunkChan: the first table becomes the accumulator.
MergerFirst(w) ==
    /\ ~panicked
    /\ mpc = "first"
    /\ wpc[w] = "send"
    /\ stationData' = wmap[w]
    /\ arrived' = Append(arrived, wmap[w])
    /\ wpc' = [wpc EXCEPT ![w] = "done"]
    /\ mpc' = "range"
    /\ UNCHANGED <<input, chunkSize, chunkReaders, prevEnd, ppc, pchunk, emitted,
                   wchunk, wmap, wg, cpc, dataChunk, output, panicked>>
    /\ arrivedFrom' = Append(arrivedFrom, w)
    /\ UNCHANGED <<taken, handled>>
    /\ UNCHANGED pureVars

\* A faulty variant of MergerRecv: the merger takes a worker's table without
\* waiting for the worker to send it, so the worker may still be at work on it.
MergerRecvEarly(w) ==
    /\ ~panicked
    /\ mpc = "range"
    /\ wpc[w] \in {"recv", "send"}
    /\ dataChunk' = wmap[w]
    /\ arrived' = Append(arrived, wmap[w])
    /\ wpc' = [wpc EXCEPT ![w] = IF wpc[w] = "send" THEN "done" ELSE wpc[w]]
    /\ mpc' = "sum"
    /\ UNCHANGED <<input, chunkSize, chunkReaders, prevEnd, ppc, pchunk, emitted,
                   wchunk, wmap, wg, cpc, stationData, output, panicked>>
    /\ arrivedFrom' = Append(arrivedFrom, w)
    /\ UNCHANGED <<taken, handled>>
    /\ UNCHANGED pureVars

\* for dataChunk := range dataChunkChan: the next table arrives.
MergerRecv(w) ==
    /\ ~panicked
    /\ mpc = "range"
    /\ wpc[w] = "send"
    /\ dataChunk' = wmap[w]
    /\ arrived' = Append(arrived, wmap[w])
    /\ wpc' = [wpc EXCEPT ![w] = "done"]
    /\ mpc' = "sum"
    /\ UNCHANGED <<input, chunkSize, chunkReaders, prevEnd, ppc, pchunk, emitted,
                   wchunk, wmap, wg, cpc, stationData, output, panicked>>
    /\ arrivedFrom' = Append(arrivedFrom, w)
    /\ UNCHANGED <<taken, handled>>
    /\ UNCHANGED pureVars

MergerSum ==
    /\ ~panicked
    /\ mpc = "sum"
    /\ stationData' = sumChunk(stationData, dataChunk)
    /\ mpc' = "range"
    /\ UNCHANGED <<input, chunkSize, chunkReaders, prevEnd, ppc, pchunk, emitted,
                   wpc, wchunk, wmap, wg, cpc, dataChunk, arrived, output,
                   panicked>>
    /\ UNCHANGED <<arrivedFrom, taken, handled>>
    /\ UNCHANGED pureVars

\* The deferred wg.Done() of a worker that has sent its table.
WorkerDone(w) ==
    /\ ~panicked
    /\ wpc[w] = "done"
    /\ wg' = wg - 1
    /\ wpc' = [wpc EXCEPT ![w] = "exit"]
    /\ UNCHANGED <<input, chunkSize, chunkReaders, prevEnd, ppc, pchunk, emitted,
                   wchunk, wmap, cpc, mpc, stationData, dataChunk, arrived,
                   output, panicked>>
    /\ UNCHANGED <<arrivedFrom, taken, handled>>
    /\ UNCHANGED pureVars

\* The closer: wg.Wait() returns, close(dataChunkChan).
CloserClose ==
    /\ ~panicked
    /\ cpc = "wait"
    /\ wg = 0
    /\ cpc' = "closed"
    /\ UNCHANGED <<input, chunkSize, chunkReaders, prevEnd, ppc, pchunk, emitted,
                   wpc, wchunk, wmap, wg, mpc, stationData, dataChunk, arrived,
                   output, panicked>>
    /\ UNCHANGED <<arrivedFrom, taken, handled>>
    /\ UNCHANGED pureVars

\* The range loop ends on the closed channel; printOutput(stationData).
MergerPrint ==
    /\ ~panicked
    /\ mpc = "range"
    /\ cpc = "closed"
    /\ output' = printOutput(stationData)
    /\ mpc' = "done"
    /\ UNCHANGED <<input, chunkSize, chunkReaders, prevEnd, ppc, pchunk, emitted,
                   wpc, wchunk, wmap, wg, cpc, stationData, dataChunk, arrived,
                   panicked>>
    /\ UNCHANGED <<arrivedFrom, taken, handled>>
    /\ UNCHANGED pureVars

NextRun ==
    \/ ProducerRead
    \/ ProducerClose
    \/ \E w \in Readers : Handoff(w)
    \/ \E w \in Readers : WorkerParse(w)
    \/ \E w \in Readers : WorkerPanic(w)
    \/ \E w \in Readers : WorkerEnd(w)
    \/ \E w \in Readers : MergerFirst(w)
    \/ \E w \in Readers : MergerRecv(w)
    \/ MergerSum
    \/ \E w \in Readers : WorkerDone(w)
    \/ CloserClose
    \/ MergerPrint

\* chanToSlice of the tests: the channel is read into a slice until it is
\* closed. The slice is the history emitted.
SliceRecv ==
    /\ ppc \in {"send", "sendLast"}
    /\ chunkReaders = 0
    /\ emitted' = Append(emitted, pchunk)
    /\ ppc' = IF ppc = "send" THEN "read" ELSE "close"
    /\ UNCHANGED <<input, chunkSize, chunkReaders, prevEnd, pchunk, wpc, wchunk,
                   wmap, wg, cpc, mpc, stationData, dataChunk, arrived, output,
                   panicked>>
    /\ taken' = Append(taken, 0)
    /\ UNCHANGED <<arrivedFrom, handled>>
    /\ UNCHANGED pureVars

vars == <<runVars, parseVars, statsVars, mapVars, tableVars, hashVars>>

NotCalled == [called |-> FALSE]

IdleRun ==
    /\ input = <<>>
    /\ chunkSize = 1
    /\ chunkReaders = 0
    /\ InitState

IdleParse ==
    /\ pin = [name |-> <<>>, text |-> <<>>, value |-> 0, tail |-> <<>>,
              terminated |-> FALSE]
    /\ pret = NotCalled
    /\ nret = NotCalled
    /\ rret = NotCalled

IdleStats ==
    /\ st = ZeroStats
    /\ seen = <<>>

IdleMap ==
    /\ tacc = NilMap
    /\ tsrc = NilMap
    /\ tbefore = NilMap
    /\ tphase = "fill"

IdleTable ==
    /\ tbl = NilMap
    /\ tset = <<>>
    /\ tcall = NotCalled

IdleHash ==
    /\ hin = [station |-> <<>>, capacity |-> 1]
    /\ hret = NotCalled

\* run(): the chunk size holds any record, as the 32 MiB of the program do.
Init ==
    /\ input \in RunInputs
    /\ chunkSize \in LongestRecord..(LongestRecord + RunChunkSpan)
    /\ chunkReaders \in 1..MaxReaders
    /\ InitState
    /\ IdleParse /\ IdleStats /\ IdleMap /\ IdleTable /\ IdleHash

Next == NextRun

Spec == Init /\ [][Next]_vars

\* The steps WorkerParse and WorkerPanic, MergerSum and MergerPrint, told by
\* the goroutine's position alone.
ParseStep(w) ==
    /\ ~panicked
    /\ wpc[w] = "parse"
    /\ \/ wpc' = [wpc EXCEPT ![w] = "recv"] /\ panicked' = panicked
       \/ wpc' = wpc /\ panicked' = TRUE

SumStep ==
    /\ ~panicked
    /\ mpc = "sum"
    /\ mpc' = "range"

PrintStep ==
    /\ ~panicked
    /\ mpc = "range"
    /\ cpc = "closed"
    /\ mpc' = "done"

\* run() under the scheduler of the Go runtime: a goroutine that can take a
\* step is not left waiting forever. The producer, the workers, the closer and
\* the merger each go on while they can.
FairSpec ==
    /\ Spec
    /\ WF_vars(ProducerRead \/ ProducerClose)
    /\ WF_vars(\E w \in Readers : Handoff(w) \/ WorkerEnd(w) \/ WorkerDone(w))
    /\ WF_<<wpc, panicked>>(\E w \in Readers : ParseStep(w))
    /\ WF_vars(CloserClose)
    /\ WF_vars(\E w \in Readers : MergerFirst(w) \/ MergerRecv(w))
    /\ WF_mpc(SumStep \/ PrintStep)

\* chunkByBytes with any chunk size, its channel read by chanToSlice.
InitChunk ==
    /\ input \in Inputs
    /\ chunkSize \in 1..MaxChunkSize
    /\ chunkReaders = 0
    /\ InitState
    /\ IdleParse /\ IdleStats /\ IdleMap /\ IdleTable /\ IdleHash

NextChunk ==
    \/ ProducerRead
    \/ ProducerClose
    \/ SliceRecv

SpecChunk == InitChunk /\ [][NextChunk]_vars

\* chunkByBytes with any chunk size, its channel read by one chunkReader.
InitReader ==
    /\ input \in Inputs
    /\ chunkSize \in 1..MaxChunkSize
    /\ chunkReaders = 1
    /\ InitState
    /\ IdleParse /\ IdleStats /\ IdleMap /\ IdleTable /\ IdleHash

NextReader ==
    \/ ProducerRead
    \/ ProducerClose
    \/ \E w \in Readers : Handoff(w)
    \/ \E w \in Readers : WorkerParse(w)
    \/ \E w \in Readers : WorkerPanic(w)
    \/ \E w \in Readers : WorkerEnd(w)

SpecReader == InitReader /\ [][NextReader]_vars

\* ------------------------------------------- parseLine, parseNumber ----
\* parseLine called on a byte range that starts with a record in one of the
\* four value layouts, and parseNumber called on that record's value text.

Digits == 0..9

\* A value text in one of the layouts D.D, DD.D, -D.D, -DD.D, from its sign
\* and digits (t = -1: no tens digit), and the value times 10 it stands for.
layoutText(neg, t, u, f) ==
    (IF neg THEN <<MINUS>> ELSE <<>>)
    \o (IF t >= 0 THEN <<ASCII0 + t>> ELSE <<>>)
    \o <<ASCII0 + u, DOT, ASCII0 + f>>

layoutValue(neg, t, u, f) ==
    (IF neg THEN -1 ELSE 1) * (10 * ((IF t >= 0 THEN 10 * t ELSE 0) + u) + f)

ParseNames == {NameX, NameAb, NameU}

\* What follows the record in the range: nothing, or another record.
ParseTails == {<<>>, recordText([name |-> NameAb, value |-> 15])}

\* The byte range handed to parseLine.
parseData ==
    pin.name \o <<SEMI>> \o pin.text
    \o (IF pin.terminated THEN <<NL>> \o pin.tail ELSE <<>>)

InitParse ==
    /\ \E n \in ParseNames, neg \in BOOLEAN, t \in -1..9, u \in Digits,
          f \in Digits, tl \in ParseTails, term \in BOOLEAN :
          /\ ~term => tl = <<>>
          /\ pin = [name |-> n, text |-> layoutText(neg, t, u, f),
                    value |-> layoutValue(neg, t, u, f), tail |-> tl,
                    terminated |-> term]
    /\ pret = NotCalled
    /\ nret = NotCalled
    /\ rret = NotCalled
    /\ IdleRun /\ IdleStats /\ IdleMap /\ IdleTable /\ IdleHash

CallParseLine ==
    /\ ~pret.called
    /\ pret' = [called |-> TRUE, ret |-> parseLine(parseData)]
    /\ UNCHANGED <<pin, nret, rret, runVars, statsVars, mapVars, tableVars,
                   hashVars>>

CallParseNumber ==
    /\ ~nret.called
    /\ nret' = [called |-> TRUE, ret |-> parseNumber(pin.text)]
    /\ UNCHANGED <<pin, pret, rret, runVars, statsVars, mapVars, tableVars,
                   hashVars>>

NextParse ==
    \/ CallParseLine
    \/ CallParseNumber

SpecParse == InitParse /\ [][NextParse]_vars

\* ------------------------------------------------- malformed records ----
\* parseLine, parseNumber and chunkReader's loop on a byte range whose first
\* record has a value text outside the four layouts: of another width, or with
\* a byte that is no digit where a layout has one.

MalformedTexts ==
    { <<53>>,                          \* "5"
      <<DOT, 53>>,                     \* ".5"
      <<49, 50, 51, DOT, 52>>,         \* "123.4"
      <<MINUS, 49, 50, 51, DOT, 52>>,  \* "-123.4"
      <<49, DOT, 53, 53>>,             \* "1.55"
      <<97, DOT, 53>>,                 \* "a.5"
      <<49, 97, DOT, 53>>,             \* "1a.5"
      <<49, DOT, 97>>,                 \* "1.a"
      <<MINUS, 97, DOT, 53>>,          \* "-a.5"
      <<MINUS, 49, 50, DOT, MINUS>> }  \* "-12.-"

InitMalformed ==
    /\ \E n \in ParseNames, text \in MalformedTexts, tl \in ParseTails :
          pin = [name |-> n, text |-> text, value |-> 0, tail |-> tl,
                 terminated |-> TRUE]
    /\ pret = NotCalled
    /\ nret = NotCalled
    /\ rret = NotCalled
    /\ IdleRun /\ IdleStats /\ IdleMap /\ IdleTable /\ IdleHash

\* chunkReader's loop over the range as one chunk, into a new table.
CallReadChunk ==
    /\ ~rret.called
    /\ rret' = [called |-> TRUE,
                ret |-> readChunk(newSimpleMap(maxStations), parseData)]
    /\ UNCHANGED <<pin, pret, nret, runVars, statsVars, mapVars, tableVars,
                   hashVars>>

NextMalformed ==
    \/ CallParseLine
    \/ CallParseNumber
    \/ CallReadChunk

SpecMalformed == InitMalformed /\ [][NextMalformed]_vars

\* ------------------------------------------------------- updateStats ----
\* updateStats called again and again on one stats record that starts fresh.

MaxUpdates == 3

Measurements == {-999, -105, -1, 0, 7, 999}

InitStats ==
    /\ st = ZeroStats
    /\ seen = <<>>
    /\ IdleRun /\ IdleParse /\ IdleMap /\ IdleTable /\ IdleHash

CallUpdateStats(v) ==
    /\ Len(seen) < MaxUpdates
    /\ st' = updateStats(st, v)
    /\ seen' = Append(seen, v)
    /\ UNCHANGED <<runVars, parseVars, mapVars, tableVars, hashVars>>

NextStats == \E v \in Measurements : CallUpdateStats(v)

SpecStats == InitStats /\ [][NextStats]_vars

\* ---------------------------------------------------------- sumChunk ----
\* Two tables of one capacity are filled as chunkReader fills them, then
\* sumChunk folds the second into the first.

MaxFill == 2

\* The capacity of the tables of TestSumStationData.
TestCapacity == 10

MapCapacities == {TestCapacity, maxStations}
MapNames == {NameAb, NameX, NameY, NameU}
MapValues == {-20, 15}

\* Every item of every bucket.
tableEntries(m) ==
    UNION { {m.data[s][i] : i \in 1..Len(m.data[s])} : s \in DOMAIN m.data }

RECURSIVE sumOfCounts(_)
sumOfCounts(entries) ==
    IF entries = {} THEN 0
    ELSE LET e == CHOOSE x \in entries : TRUE
         IN e.stats.count + sumOfCounts(entries \ {e})

\* The number of records folded into a table.
recordsIn(m) == sumOfCounts(tableEntries(m))

InitMap ==
    /\ \E c \in MapCapacities :
          /\ tacc = newSimpleMap(c)
          /\ tsrc = newSimpleMap(c)
          /\ tbefore = newSimpleMap(c)
    /\ tphase = "fill"
    /\ IdleRun /\ IdleParse /\ IdleStats /\ IdleTable /\ IdleHash

FillAcc(n, v) ==
    /\ tphase = "fill"
    /\ recordsIn(tacc) < MaxFill
    /\ tacc' = readRecord(tacc, n, v)
    /\ UNCHANGED <<tsrc, tbefore, tphase, runVars, parseVars, statsVars,
                   tableVars, hashVars>>

FillSrc(n, v) ==
    /\ tphase = "fill"
    /\ recordsIn(tsrc) < MaxFill
    /\ tsrc' = readRecord(tsrc, n, v)
    /\ UNCHANGED <<tacc, tbefore, tphase, runVars, parseVars, statsVars,
                   tableVars, hashVars>>

CallSumChunk ==
    /\ tphase = "fill"
    /\ tbefore' = tacc
    /\ tacc' = sumChunk(tacc, tsrc)
    /\ tphase' = "merged"
    /\ UNCHANGED <<tsrc, runVars, parseVars, statsVars, tableVars,
                   hashVars>>

NextMap ==
    \/ \E n \in MapNames, v \in MapValues : FillAcc(n, v)
    \/ \E n \in MapNames, v \in MapValues : FillSrc(n, v)
    \/ CallSumChunk

SpecMap == InitMap /\ [][NextMap]_vars

\* -------------------------------------------------- set, get, iter ----
\* set, get and iter called on one table, as TestSimpleMapSet and
\* TestSimpleMapGet call them. A *stats is the address of a stats variable;
\* the addresses are numbered from 1.

MaxSets == 3
MaxRefs == 2

Refs == 1..MaxRefs

\* m.len()
mapLen(m) == m.length

InitTable ==
    /\ \E c \in MapCapacities : tbl = newSimpleMap(c)
    /\ tset = <<>>
    /\ tcall = NotCalled
    /\ IdleRun /\ IdleParse /\ IdleStats /\ IdleMap /\ IdleHash

\* m.set(m.pos(name), name, st)
CallSet(n, r) ==
    /\ Len(tset) < MaxSets
    /\ tbl' = mapSet(tbl, mapPos(tbl, n), n, r)
    /\ tset' = Append(tset, [name |-> n, st |-> r])
    /\ tcall' = [called |-> TRUE, op |-> "set", name |-> n, st |-> r,
                 before |-> tbl]
    /\ UNCHANGED <<runVars, parseVars, statsVars, mapVars, hashVars>>

\* m.get(m.pos(name), name)
CallGet(n) ==
    /\ tcall' = [called |-> TRUE, op |-> "get", name |-> n,
                 ret |-> mapGet(tbl, mapPos(tbl, n), n)]
    /\ UNCHANGED <<tbl, tset, runVars, parseVars, statsVars, mapVars,
                   hashVars>>

\* next := m.iter(), then next() until it reports ok = false.
CallIter ==
    /\ tcall' = [called |-> TRUE, op |-> "iter", ret |-> mapIter(tbl)]
    /\ UNCHANGED <<tbl, tset, runVars, parseVars, statsVars, mapVars,
                   hashVars>>

NextTable ==
    \/ \E n \in MapNames, r \in Refs : CallSet(n, r)
    \/ \E n \in MapNames : CallGet(n)
    \/ CallIter

SpecTable == InitTable /\ [][NextTable]_vars

\* -------------------------------------------------------- stationPos ----
\* stationPos called on its own, on every name of up to MaxNameLen bytes.

MaxNameLen == 4

HashBytes == {97, 98, 224}
HashNames == SeqsUpTo(HashBytes, MaxNameLen)
HashCapacities == MapCapacities \cup {1}

InitHash ==
    /\ hin \in [station : HashNames, capacity : HashCapacities]
    /\ hret = NotCalled
    /\ IdleRun /\ IdleParse /\ IdleStats /\ IdleMap /\ IdleTable

CallStationPos ==
    /\ ~hret.called
    /\ hret' = [called |-> TRUE, ret |-> stationPos(hin.station, hin.capacity)]
    /\ UNCHANGED <<hin, runVars, parseVars, statsVars, mapVars, tableVars>>

NextHash ==
    \/ CallStationPos

SpecHash == InitHash /\ [][NextHash]_vars

\* ------------------------------------------------------------ claims ----

\* The statistics of the records of one name, by definition.
valuesOf(records, n) ==
    {i \in 1..Len(records) : records[i].name = n}

RECURSIVE sumValues(_, _)
sumValues(records, idx) ==
    IF idx = {} THEN 0
    ELSE LET i == CHOOSE x \in idx : TRUE
         IN records[i].value + sumValues(records, idx \ {i})

directStats(records, n) ==
    LET idx == valuesOf(records, n)
        vals == {records[i].value : i \in idx}
    IN [sum |-> sumValues(records, idx),
        min |-> CHOOSE v \in vals : \A x \in vals : v <= x,
        max |-> CHOOSE v \in vals : \A x \in vals : v >= x,
        count |-> Cardinality(idx)]

namesOf(records) == {records[i].name : i \in 1..Len(records)}

\* The table of all records aggregated directly: one entry per name.
directEntries(records) ==
    {[name |-> n, stats |-> directStats(records, n)] : n \in namesOf(records)}

\* Folding tables in the order given, the first one as the accumulator.
RECURSIVE foldTables(_, _)
foldTables(acc, tables) ==
    IF tables = <<>> THEN acc
    ELSE foldTables(sumChunk(acc, Head(tables)), Tail(tables))

permuted(tables, p) == [i \in 1..Len(tables) |-> tables[p[i]]]

\* The fold of two already aggregated stats, as the merger's contract has it.
combined(a, b) ==
    [sum |-> a.sum + b.sum, min |-> Min2(a.min, b.min),
     max |-> Max2(a.max, b.max), count |-> a.count + b.count]

lookup(m, n) == mapGet(m, mapPos(m, n), n)

RECURSIVE concat(_)
concat(chunks) ==
    IF chunks = <<>> THEN <<>> ELSE Head(chunks) \o concat(Tail(chunks))

\* The length of the longest record of the input, terminator included.
longestOf(records) ==
    IF records = <<>> THEN 0
    ELSE CHOOSE n \in {Len(recordText(records[i])) : i \in 1..Len(records)} :
             \A i \in 1..Len(records) : Len(recordText(records[i])) <= n

\* C1: when run() has merged the workers' tables, the merged table holds for
\* every name exactly the min, max, sum and count of all records of that name
\* (what aggregating all records in one table gives), however the chunks were
\* shared out among the workers.
C1_MergedEqualsDirect ==
    mpc = "done" => tableEntries(stationData) = directEntries(input)

\* C2: the table handed to printOutput does not depend on the order in which
\* the workers' tables reach the merger: folding the same tables in any other
\* order, with whichever table first as the accumulator, gives the same
\* entries.
C2_MergeOrderIndependent ==
    mpc = "done" =>
        \A p \in Permutations(1..Len(arrived)) :
            LET tables == permuted(arrived, p)
            IN tableEntries(foldTables(Head(tables), Tail(tables)))
                   = tableEntries(stationData)

\* C3: sumChunk(acc, src) leaves in acc, for every name of src, the fold of
\* acc's former stats and src's stats (count and sum added, min and max of
\* both); a name acc did not hold ends with exactly src's stats, and the names
\* only acc held keep their stats.
C3_SumChunkCombines ==
    tphase = "merged" =>
        /\ \A e \in tableEntries(tsrc) :
              LET a == lookup(tbefore, e.name) IN
              lookup(tacc, e.name)
                  = [ok |-> TRUE,
                     stats |-> IF a.ok THEN combined(a.stats, e.stats)
                               ELSE e.stats]
        /\ \A e \in tableEntries(tbefore) :
              ~lookup(tsrc, e.name).ok =>
                  lookup(tacc, e.name) = [ok |-> TRUE, stats |-> e.stats]

\* C4: the chunks chunkByBytes has emitted so far, concatenated in emission
\* order, are a prefix of the input, and once the final chunk is emitted they
\* are the whole input: no gap, no overlap, nothing reordered.
C4_ChunksCoverInput ==
    /\ concat(emitted) = Slice(file, 0, Len(concat(emitted)))
    /\ ppc \in {"close", "closed"} => concat(emitted) = file

\* C4's case: a run that closed the channel after cutting the input into
\* several chunks, one of them cut back to a terminator.
C4_Witness ==
    /\ ppc = "closed"
    /\ Len(input) = 3
    /\ chunkSize >= longestOf(input)
    /\ Len(emitted) >= 3
    /\ \E i \in 1..(Len(emitted) - 1) :
          /\ Len(emitted[i]) > 0
          /\ Len(emitted[i]) < chunkSize
          /\ emitted[i][Len(emitted[i])] = NL

\* C5: every chunk emitted by chunkByBytes, except possibly the last, ends
\* immediately after a terminator.
C5_ChunksEndAfterTerminator ==
    \A i \in 1..(Len(emitted) - 1) :
        Len(emitted[i]) > 0 /\ emitted[i][Len(emitted[i])] = NL

\* C6: for a byte range that starts with a valid record, parseLine returns the
\* offset of the record's terminator, the bytes before the separator as the
\* name and the decoded value; for a range without a terminator it returns -1.
C6_ParseLineReturnsRecord ==
    pret.called =>
        IF pin.terminated
        THEN pret.ret = [panic |-> FALSE,
                         newlineIdx |-> Len(pin.name) + 1 + Len(pin.text),
                         name |-> pin.name,
                         measurement |-> pin.value]
        ELSE ~pret.ret.panic /\ pret.ret.newlineIdx = -1

\* C7: with a chunk size that holds the longest record, a single chunkReader
\* reading the chunks of chunkByBytes comes to its end, and its table then
\* holds exactly one entry per name of the input, with the min, max, sum and
\* count of all records of that name.
C7_ReaderTableEqualsDirect ==
    chunkSize >= longestOf(input) =>
        /\ ~panicked
        /\ wpc[1] = "send" => tableEntries(wmap[1]) = directEntries(input)

\* C8: the output lists every name of the input exactly once, in strictly
\* ascending byte order.
C8_OutputNamesSorted ==
    mpc = "done" =>
        /\ {output[i].name : i \in 1..Len(output)} = namesOf(input)
        /\ Len(output) = Cardinality(namesOf(input))
        /\ \A i \in 1..(Len(output) - 1) :
              StrLess(output[i].name, output[i + 1].name)

\* C9: after updateStats has folded v1..vn (n >= 1) into a fresh stats, count
\* is n, sum is v1+...+vn, min is the least and max the greatest of them; after
\* the first value alone min = max = sum = v1 and count = 1.
C9_UpdateStatsFolds ==
    seen # <<>> =>
        LET vals == {seen[i] : i \in 1..Len(seen)} IN
        /\ st.count = Len(seen)
        /\ st.sum = sumValues([i \in 1..Len(seen) |-> [value |-> seen[i]]],
                              1..Len(seen))
        /\ st.min = CHOOSE v \in vals : \A x \in vals : v <= x
        /\ st.max = CHOOSE v \in vals : \A x \in vals : v >= x
        /\ Len(seen) = 1 => st = [sum |-> seen[1], min |-> seen[1],
                                  max |-> seen[1], count |-> 1]

\* C9's case: three values, all positive or all negative, folded in.
C9_Witness ==
    /\ Len(seen) = 3
    /\ \/ \A i \in 1..3 : seen[i] > 0
       \/ \A i \in 1..3 : seen[i] < 0
    /\ seen[1] # seen[2]
    /\ st.count = 3

\* C10: for every value text D.D, DD.D, -D.D, -DD.D parseNumber returns the
\* value times 10, sign * (10 * integer part + fractional digit), which lies in
\* [-999, 999].
C10_ParseNumberDecodes ==
    nret.called =>
        /\ nret.ret = [panic |-> FALSE, val |-> pin.value]
        /\ nret.ret.val >= -999 /\ nret.ret.val <= 999

\* C10's case: parseNumber has decoded -99.9.
C10_Witness ==
    /\ nret.called
    /\ pin.text = <<MINUS, 57, 57, DOT, 57>>
    /\ nret.ret.val = -999

\* C11: a full-sized read that holds no terminator is a fatal error: no chunk
\* is cut from such a read, so the chunk the producer is about to send from a
\* full-sized read always comes from a read that held a terminator.
C11_NoTerminatorIsFatal ==
    ppc = "send" => IndexByte(readAt(prevEnd - Len(pchunk)), NL) # -1

\* C12: a record with a malformed value field is a fatal format violation:
\* parseLine does not return a record for it, chunkReader's loop aborts on it,
\* and the table holds no entry made from it.
C12_MalformedIsFatal ==
    /\ pret.called => pret.ret.panic
    /\ rret.called => rret.ret.panic /\ tableEntries(rret.ret.out) = {}

\* The chunks worker w received, in the order they were sent.
chunksTakenBy(w) ==
    LET idx == SelectSeq([i \in 1..Len(taken) |-> i], LAMBDA i : taken[i] = w)
    IN [k \in 1..Len(idx) |-> emitted[idx[k]]]

\* C13: every chunk the producer has sent was received by exactly one worker,
\* and each worker has parsed, or is parsing, exactly the chunks it received,
\* each once and in order: no chunk reaches two workers and none is skipped.
C13_ChunkTakenOnce ==
    /\ Len(taken) = Len(emitted)
    /\ \A i \in 1..Len(taken) : taken[i] \in Readers
    /\ \A w \in Readers :
          chunksTakenBy(w)
              = handled[w] \o (IF wpc[w] = "parse" THEN <<wchunk[w]>> ELSE <<>>)
    /\ (\A w \in Readers : wpc[w] \notin {"recv", "parse"}) =>
           \A w \in Readers : chunksTakenBy(w) = handled[w]

\* C13's case: a finished run in which two workers each parsed a chunk.
C13_Witness ==
    /\ mpc = "done"
    /\ Len(emitted) >= 2
    /\ \E v, w \in Readers : v # w /\ handled[v] # <<>> /\ handled[w] # <<>>

\* A table of capacity c holding the entries of m, built by set.
RECURSIVE setAll(_, _)
setAll(m, entries) ==
    IF entries = {} THEN m
    ELSE LET e == CHOOSE x \in entries : TRUE
         IN setAll(mapSet(m, mapPos(m, e.name), e.name, e.stats), entries \ {e})

atCapacity(m, c) == setAll(newSimpleMap(c), tableEntries(m))

\* C14: the result does not depend on the capacity of the tables: the same
\* entries held in tables of any other capacity merge to the same entries and
\* print the same names and stats.
C14_CapacityIndependent ==
    tphase = "merged" =>
        \A c \in MapCapacities :
            LET other == sumChunk(atCapacity(tbefore, c), atCapacity(tsrc, c))
            IN /\ tableEntries(other) = tableEntries(tacc)
               /\ printOutput(other) = printOutput(tacc)

\* The set calls so far that were for name n, by their place in the sequence.
setsOf(n) == {i \in 1..Len(tset) : tset[i].name = n}

\* C15: get(pos, name) returns (st, true) with the *stats of the last set for
\* that name, whatever other names its bucket holds, and (nil, false) for a
\* name that was never set.
C15_GetAfterSet ==
    (tcall.called /\ tcall.op = "get") =>
        IF setsOf(tcall.name) # {}
        THEN LET last == CHOOSE i \in setsOf(tcall.name) :
                             \A j \in setsOf(tcall.name) : j <= i
             IN tcall.ret.ok /\ tcall.ret.stats = tset[last].st
        ELSE tcall.ret = [ok |-> FALSE, stats |-> NilStats]

\* C15's case: get found the second name of a bucket of two, set twice.
C15_Witness ==
    /\ tcall.called /\ tcall.op = "get"
    /\ tcall.ret.ok
    /\ Len(tset) = 3
    /\ tset[1].name # tcall.name
    /\ mapPos(tbl, tset[1].name) = mapPos(tbl, tcall.name)
    /\ tset[2] = [name |-> tcall.name, st |-> 1]
    /\ tset[3] = [name |-> tcall.name, st |-> 2]
    /\ tcall.ret.stats = 2

\* The number of items in all buckets.
RECURSIVE itemCount(_, _)
itemCount(m, slots) ==
    IF slots = {} THEN 0
    ELSE LET sl == CHOOSE x \in slots : TRUE
         IN Len(m.data[sl]) + itemCount(m, slots \ {sl})

\* C16: after any sequence of set calls the names within each bucket are
\* pairwise distinct and len() is the number of entries; a set for a name the
\* bucket holds replaces its *stats in place and leaves len and every other
\* entry as they were, a set for an absent name appends one entry at the end
\* of the bucket and adds one to len.
C16_SetKeepsBuckets ==
    /\ \A sl \in DOMAIN tbl.data :
          \A i, j \in 1..Len(tbl.data[sl]) :
              i # j => tbl.data[sl][i].name # tbl.data[sl][j].name
    /\ mapLen(tbl) = itemCount(tbl, DOMAIN tbl.data)
    /\ (tcall.called /\ tcall.op = "set") =>
          LET pos == mapPos(tbl, tcall.name)
              old == bucketItems(tcall.before, pos)
              new == bucketItems(tbl, pos)
              item == [name |-> tcall.name, stats |-> tcall.st]
              held == {i \in 1..Len(old) : old[i].name = tcall.name}
          IN /\ \A sl \in (DOMAIN tbl.data \cup DOMAIN tcall.before.data) \ {pos} :
                    bucketItems(tbl, sl) = bucketItems(tcall.before, sl)
             /\ IF held # {}
                THEN /\ Len(new) = Len(old)
                     /\ \A i \in 1..Len(old) :
                            new[i] = IF i \in held THEN item ELSE old[i]
                     /\ mapLen(tbl) = mapLen(tcall.before)
                ELSE /\ new = Append(old, item)
                     /\ mapLen(tbl) = mapLen(tcall.before) + 1

\* C16's case: a set replaced the *stats of the second name of a bucket of two.
C16_Witness ==
    /\ tcall.called /\ tcall.op = "set"
    /\ Len(bucketItems(tcall.before, mapPos(tbl, tcall.name))) = 2
    /\ bucketItems(tcall.before, mapPos(tbl, tcall.name))[2]
           = [name |-> tcall.name, stats |-> 1]
    /\ tcall.st = 2
    /\ mapLen(tbl) = 2

\* The entries of the buckets at the given slots, in ascending slot order and
\* within a slot in bucket order, each with its slot.
RECURSIVE entriesInOrder(_, _)
entriesInOrder(m, slots) ==
    IF slots = {} THEN <<>>
    ELSE LET sl == CHOOSE x \in slots : \A y \in slots : x <= y
         IN [i \in 1..Len(m.data[sl]) |->
                [pos |-> sl, name |-> m.data[sl][i].name,
                 stats |-> m.data[sl][i].stats]]
            \o entriesInOrder(m, slots \ {sl})

\* C17: the iterator yields every entry of the table exactly once, in
\* ascending slot order and within a slot in bucket order, each with the slot
\* it is stored in, whichever slots from 0 to capacity-1 hold entries.
C17_IterYieldsAll ==
    (tcall.called /\ tcall.op = "iter") =>
        tcall.ret = entriesInOrder(tbl, DOMAIN tbl.data)

\* The workers whose table has reached the merger.
handedOver == {arrivedFrom[i] : i \in 1..Len(arrivedFrom)}

\* Each worker hands over one table, the result channel is closed only after
\* all of them have, and formatting starts only after the merger has received
\* one table from each worker.
handoverInOrder ==
    /\ Cardinality(handedOver) = Len(arrivedFrom)
    /\ Len(arrived) = Len(arrivedFrom)
    /\ \A w \in Readers : w \in handedOver <=> wpc[w] \in {"done", "exit"}
    /\ cpc = "closed" => \A w \in Readers : wpc[w] = "exit"
    /\ mpc = "done" => cpc = "closed" /\ Len(arrived) = chunkReaders

\* C18: under fair scheduling run() always finishes: once the producer has
\* closed the chunk channel every worker exits, each worker hands over exactly
\* one table, the result channel is closed only after all have, and the merger
\* has received one table per worker when it formats the result.
C18_RunFinishes ==
    /\ []handoverInOrder
    /\ (ppc = "closed") ~> (\A w \in Readers : wpc[w] = "exit")
    /\ <>(mpc = "done")

\* C19: the producer emits finitely many chunks: a chunk cut from a full-sized
\* read holds at least one byte, so the next read starts further on; the final
\* chunk is all the bytes that remain; and so no more chunks are emitted than
\* the input has bytes, plus the final one.
C19_ProducerFinite ==
    /\ ppc = "send" => Len(pchunk) >= 1
    /\ ppc = "sendLast" => pchunk = Slice(file, prevEnd, Len(file))
    /\ Len(emitted) <= Len(file) + 1

\* C20: no table is used by two goroutines at once. The tables the merger
\* holds come from workers that have sent them and are past their last use of
\* them, and each is as its worker left it; a worker that is still receiving,
\* parsing or waiting to send has its table to itself; and what the merger
\* works on are the tables that arrived, never one still with its worker.
C20_TableHasOneOwner ==
    /\ \A i \in 1..Len(arrivedFrom) :
          /\ wpc[arrivedFrom[i]] \in {"done", "exit"}
          /\ wmap[arrivedFrom[i]] = arrived[i]
    /\ \A i, j \in 1..Len(arrivedFrom) : i # j => arrivedFrom[i] # arrivedFrom[j]
    /\ \A w \in Readers :
          wpc[w] \in {"recv", "parse", "send"} => w \notin handedOver
    /\ mpc = "first" => arrived = <<>> /\ stationData = NilMap
    /\ mpc = "sum" => Len(arrived) >= 2 /\ dataChunk = arrived[Len(arrived)]

\* C20's case: the merger is summing the table of a second worker into the
\* table of the first, both with entries.
C20_Witness ==
    /\ mpc = "sum"
    /\ Len(arrived) = 2
    /\ arrivedFrom[1] # arrivedFrom[2]
    /\ mapLen(arrived[1]) >= 1
    /\ mapLen(arrived[2]) >= 1
    /\ dataChunk = wmap[arrivedFrom[2]]

\* Every entry of the table is in the slot its name hashes to.
slotsByHash(m) ==
    \A sl \in DOMAIN m.data :
        /\ sl \in 0..(m.capacity - 1)
        /\ \A i \in 1..Len(m.data[sl]) :
              stationPos(m.data[sl][i].name, m.capacity) = sl

\* C21: in every table of run(), the workers' tables, the table the merger
\* received last and the merged accumulator, each entry is stored in the slot
\* stationPos(name, capacity) of the table that holds it; all these tables
\* have the same capacity.
C21_EntriesInHashSlot ==
    /\ \A w \in Readers : slotsByHash(wmap[w]) /\ wmap[w].capacity = maxStations
    /\ \A i \in 1..Len(arrived) : arrived[i].capacity = maxStations
    /\ slotsByHash(dataChunk)
    /\ slotsByHash(stationData)

\* C21's case: sumChunk has added to the accumulator a name that only the
\* second table held, at the slot the second table's iterator reported.
C21_Witness ==
    /\ mpc = "done"
    /\ Len(arrived) = 2
    /\ mapLen(arrived[1]) = 1
    /\ mapLen(stationData) = 2
    /\ \E e \in tableEntries(arrived[2]) :
          /\ ~lookup(arrived[1], e.name).ok
          /\ lookup(stationData, e.name).ok

\* count >= 1, -999 <= min <= max <= 999 and count*min <= sum <= count*max:
\* the mean sum/count is defined and lies between min and max.
statsInRange(x) ==
    /\ x.count >= 1
    /\ -999 <= x.min /\ x.min <= x.max /\ x.max <= 999
    /\ x.count * x.min <= x.sum /\ x.sum <= x.count * x.max

\* C22: every entry of a table a chunkReader has built, of the merged table
\* and of what printOutput prints has count >= 1, -999 <= min <= max <= 999
\* and count*min <= sum <= count*max.
C22_StatsInRange ==
    /\ \A w \in Readers : \A e \in tableEntries(wmap[w]) : statsInRange(e.stats)
    /\ \A e \in tableEntries(stationData) : statsInRange(e.stats)
    /\ \A i \in 1..Len(output) : statsInRange(output[i].stats)

\* C22's case: a name whose two records went to two workers is printed with
\* the count 2 and a negative min and a positive max.
C22_Witness ==
    /\ mpc = "done"
    /\ Len(arrived) = 2
    /\ mapLen(arrived[1]) = 1 /\ mapLen(arrived[2]) = 1
    /\ Len(output) = 1
    /\ output[1].stats.count = 2
    /\ output[1].stats.min < 0 /\ output[1].stats.max > 0

\* The seed 2166136261 and the prime 16777619 as four bytes each, lowest first.
seedLimbs == <<197, 157, 28, 129>>
primeLimbs == <<147, 1, 0, 1>>

\* h * prime + block modulo 2^32, by long multiplication on bytes.
limbStep(h, block) ==
    LET P == primeLimbs
        p0 == h[1] * P[1] + (block % 256)
        p1 == h[1] * P[2] + h[2] * P[1] + (block \div 256) + (p0 \div 256)
        p2 == h[1] * P[3] + h[2] * P[2] + h[3] * P[1] + (p1 \div 256)
        p3 == h[1] * P[4] + h[2] * P[3] + h[3] * P[2] + h[4] * P[1]
              + (p2 \div 256)
    IN <<p0 % 256, p1 % 256, p2 % 256, p3 % 256>>

\* The hash after the first k whole pairs of bytes of the name.
RECURSIVE foldPairs(_, _)
foldPairs(name, k) ==
    IF k = 0 THEN seedLimbs
    ELSE limbStep(foldPairs(name, k - 1), name[2 * k - 1] + 256 * name[2 * k])

\* h modulo c
limbsMod(h, c) ==
    ((((((h[4] % c) * 256 + h[3]) % c) * 256 + h[2]) % c) * 256 + h[1]) % c

\* C23: stationPos(name, capacity) depends on its two arguments only and lies
\* in 0..capacity-1: it is the seed folded with the name's whole pairs of
\* bytes (hash*prime + block, modulo 2^32), reduced modulo capacity. An odd
\* trailing byte is not folded: whatever the last byte of a name of odd
\* length is, the slot is the same, and a name of length 0 or 1 gets the slot
\* of the seed.
C23_StationPosFoldsPairs ==
    hret.called =>
        LET name == hin.station
            c == hin.capacity
            whole == SubSeq(name, 1, Len(name) - 1)
        IN /\ hret.ret \in 0..(c - 1)
           /\ hret.ret = limbsMod(foldPairs(name, Len(name) \div 2), c)
           /\ Len(name) <= 1 => hret.ret = limbsMod(seedLimbs, c)
           /\ Len(name) % 2 = 1 =>
                  \A b \in HashBytes :
                      stationPos(Append(whole, b), c) = hret.ret

\* stationPos was called on "ab" followed by one more byte, with the capacity
\* of the program's tables, and returned the slot of "ab".
C23_Witness ==
    /\ hret.called
    /\ Len(hin.station) = 3
    /\ SubSeq(hin.station, 1, 2) = NameAb
    /\ hin.capacity = maxStations
    /\ hret.ret = 16256

====
